---- MODULE Spec2Model ----
(***************************************************************************)
(* Model of scripts/seed_database.py: the connectivity waiter              *)
(* (wait_for_mongodb), the dataset loader (load_dataset) and the seed      *)
(* orchestrator (main), run by one or two operating-system processes       *)
(* against one 'reports' collection and one dataset file.                  *)
(***************************************************************************)
EXTENDS Integers, Sequences, FiniteSets, TLC

\* ------------------------------------------------------------------ bounds
\* Largest max_retries a direct caller of wait_for_mongodb passes.
MaxRetriesArg == 4
\* Largest number of rows of the dataset file.
MaxRows == 2
\* Largest number of documents the collection holds before the first run.
MaxPreExisting == 1
\* Largest number of runs of main() started one after the other.
MaxRuns == 3

\* ------------------------------------------------------- program constants
\* wait_for_mongodb(uri, max_retries=30, delay=2)
DefaultMaxRetries == 30

\* The placeholder index column load_dataset drops.
Unnamed == "Unnamed: 0"

\* The two processes that may run the script at the same time.
Procs == {1, 2}

\* The parse strategies of load_dataset, in the order it tries them.
Engines == <<"openpyxl", "xlrd", "csv">>
EngineSet == {Engines[k] : k \in 1..Len(Engines)}

\* The column layouts of the dataset file.
ColumnLayouts == {<<"Age">>, <<Unnamed, "Age">>, <<"Age", Unnamed>>}

\* The dataset files: a column layout, a number of rows, and the parse
\* strategies that accept the file.
Files == [cols : ColumnLayouts, nrows : 0..MaxRows, accepts : [EngineSet -> BOOLEAN]]

VARIABLES
    file,         \* the dataset file at DATASET_PATH
    collection,   \* the documents of the 'reports' collection, in insertion order
    started,      \* number of runs started so far (the run ids handed out)
    entry,        \* entry[p]: the function process p was started on
    run,          \* run[p]: the id of p's current run
    pc,           \* pc[p]: where p stands
    max_retries,  \* wait_for_mongodb's argument
    i,            \* wait_for_mongodb's loop variable
    probes,       \* the outcome of each ismaster command the current
                  \* wait_for_mongodb call issued, in order
    sleeps,       \* time.sleep calls made by the current wait_for_mongodb call
    e,            \* the exception the last failed probe raised
    ret,          \* the value the last call of p returned
    exc,          \* the exception that left p's entry function uncaught
    df,           \* load_dataset's dataframe
    tried,        \* the parse strategies the current load_dataset call tried, in order
    count,        \* main's count (-1: not queried yet)
    records,      \* main's records
    calls         \* calls[p]: how often the current run issued count_documents,
                  \* load_dataset and insert_many

vars == <<file, collection, started, entry, run, pc, max_retries, i, probes,
          sleeps, e, ret, exc, df, tried, count, records, calls>>

\* ---------------------------------------------------------------- values
\* Exceptions: the call that raised it (kind), its attempt, strategy or
\* progress (at: the number of the probe, the strategy, the documents written),
\* and the exception it was raised from (ckind, cat), if any.
Err(kind, at) == [kind |-> kind, at |-> at, ckind |-> "none", cat |-> 0]
NoErr == Err("none", 0)
\* raise Exception("Could not connect to MongoDB after retries") from cause
ConnectError(cause) ==
    [kind |-> "connect", at |-> 0, ckind |-> cause.kind, cat |-> cause.at]

\* Return values of wait_for_mongodb and load_dataset.
NoValue == [tag |-> "unset"]
NoneValue == [tag |-> "None"]
ClientValue == [tag |-> "client"]
FrameValue(t) == [tag |-> "df", cols |-> t.cols, data |-> t.data]

EmptyFrame == [cols |-> <<>>, data |-> <<>>]
NoCalls == [count |-> 0, load |-> 0, insert |-> 0]

\* ------------------------------------------------------- wait_for_mongodb
\* The loop running over range(max_retries - 1): one iteration short.
M_ForNext_OneShort(p, n) ==
    IF n < max_retries[p] - 1 THEN "w_probe" ELSE "w_return_none"

\* The statement reached when the for loop asks range(max_retries) for the
\* value n: the loop body, or the return None after the loop.
ForNext(p, n) == IF n < max_retries[p] THEN "w_probe" ELSE "w_return_none"

\* The test of the except branch off by one: i < max_retries.
M_RetryAgain_OffByOne(p) == i[p] < max_retries[p]

\* if i < max_retries - 1 (the except branch of the probe)
RetryAgain(p) == i[p] < max_retries[p] - 1

\* Lines 11-14: the call, client = MongoClient(uri), the first loop test.
WaitCall(p) ==
    /\ pc[p] = "w_call"
    /\ i' = [i EXCEPT ![p] = 0]
    /\ pc' = [pc EXCEPT ![p] = ForNext(p, 0)]
    /\ UNCHANGED <<file, collection, started, entry, run, max_retries, probes,
                   sleeps, e, ret, exc, df, tried, count, records, calls>>

\* ProbeOk with the sleep at the head of the loop body, before the probe.
M_ProbeOk_SleepsBeforeProbe(p) ==
    /\ pc[p] = "w_probe"
    /\ probes' = [probes EXCEPT ![p] = Append(@, "ok")]
    /\ sleeps' = [sleeps EXCEPT ![p] = @ + 1]
    /\ ret' = [ret EXCEPT ![p] = ClientValue]
    /\ pc' = [pc EXCEPT ![p] = "w_returned"]
    /\ UNCHANGED <<file, collection, started, entry, run, max_retries, i,
                   e, exc, df, tried, count, records, calls>>

\* Lines 17-19: the probe succeeds and the client is returned.
ProbeOk(p) ==
    /\ pc[p] = "w_probe"
    /\ probes' = [probes EXCEPT ![p] = Append(@, "ok")]
    /\ ret' = [ret EXCEPT ![p] = ClientValue]
    /\ pc' = [pc EXCEPT ![p] = "w_returned"]
    /\ UNCHANGED <<file, collection, started, entry, run, max_retries, i,
                   sleeps, e, exc, df, tried, count, records, calls>>

\* Lines 17, 20-23, 14: the probe fails with attempts left; sleep, next i.
ProbeFailSleep(p) ==
    /\ pc[p] = "w_probe"
    /\ RetryAgain(p)
    /\ probes' = [probes EXCEPT ![p] = Append(@, "fail")]
    /\ e' = [e EXCEPT ![p] = Err("probe", Len(probes'[p]))]
    /\ sleeps' = [sleeps EXCEPT ![p] = @ + 1]
    /\ i' = [i EXCEPT ![p] = @ + 1]
    /\ pc' = [pc EXCEPT ![p] = ForNext(p, i[p] + 1)]
    /\ UNCHANGED <<file, collection, started, entry, run, max_retries, ret,
                   exc, df, tried, count, records, calls>>

\* The raise keeping the first probe's exception instead of the current one.
M_Raised_FirstCause(p, cause) == ConnectError(Err("probe", 1))

\* The exception line 25 raises when the probe failed with `cause`.
Raised(p, cause) == ConnectError(cause)

\* The last failed probe answered by returning the client all the same.
M_ProbeFailRaise_ReturnsClient(p) ==
    /\ pc[p] = "w_probe"
    /\ ~RetryAgain(p)
    /\ probes' = [probes EXCEPT ![p] = Append(@, "fail")]
    /\ e' = [e EXCEPT ![p] = Err("probe", Len(probes'[p]))]
    /\ ret' = [ret EXCEPT ![p] = ClientValue]
    /\ pc' = [pc EXCEPT ![p] = "w_returned"]
    /\ UNCHANGED <<file, collection, started, entry, run, max_retries, i,
                   sleeps, exc, df, tried, count, records, calls>>

\* Lines 17, 20-21, 24-25: the probe fails on the last attempt; raise.
ProbeFailRaise(p) ==
    /\ pc[p] = "w_probe"
    /\ ~RetryAgain(p)
    /\ probes' = [probes EXCEPT ![p] = Append(@, "fail")]
    /\ e' = [e EXCEPT ![p] = Err("probe", Len(probes'[p]))]
    /\ exc' = [exc EXCEPT ![p] = Raised(p, e'[p])]
    /\ pc' = [pc EXCEPT ![p] = "crashed"]
    /\ UNCHANGED <<file, collection, started, entry, run, max_retries, i,
                   sleeps, ret, df, tried, count, records, calls>>

\* Line 26: return None after the loop.
ReturnNone(p) ==
    /\ pc[p] = "w_return_none"
    /\ ret' = [ret EXCEPT ![p] = NoneValue]
    /\ pc' = [pc EXCEPT ![p] = "w_returned"]
    /\ UNCHANGED <<file, collection, started, entry, run, max_retries, i,
                   probes, sleeps, e, exc, df, tried, count, records, calls>>

Wait(p) ==
    \/ WaitCall(p)
    \/ ProbeOk(p)
    \/ ProbeFailSleep(p)
    \/ ProbeFailRaise(p)
    \/ ReturnNone(p)

\* ------------------------------------------------------------ load_dataset
\* The set of the names in a sequence of column names.
Range(s) == {s[k] : k \in 1..Len(s)}

\* pd.read_excel(file_path, engine=...) and pd.read_csv(file_path) on a file
\* the strategy accepts: the table of the file as that strategy decodes it.
\* A cell is known by the strategy that decoded it and its place in the file.
ReadTable(f, engine) ==
    [cols |-> f.cols,
     data |-> [r \in 1..f.nrows |->
                 [c \in 1..Len(f.cols) |->
                    [engine |-> engine, row |-> r, col |-> f.cols[c]]]]]

\* Dropping by position: the first column, whatever its name.
M_Kept_FirstColumn(t, name) == [q \in 1..(Len(t.cols) - 1) |-> q + 1]

\* The positions of the columns of t not named `name`, in order.
Kept(t, name) ==
    SelectSeq([c \in 1..Len(t.cols) |-> c], LAMBDA c : t.cols[c] # name)

\* df.drop(name, axis=1)
Drop(t, name) ==
    LET keep == Kept(t, name)
    IN  [cols |-> [q \in 1..Len(keep) |-> t.cols[keep[q]]],
         data |-> [r \in 1..Len(t.data) |->
                     [q \in 1..Len(keep) |-> t.data[r][keep[q]]]]]

\* Lines 50-51: drop the placeholder column if it exists.
CleanUp(t) == IF Unnamed \in Range(t.cols) THEN Drop(t, Unnamed) ELSE t

\* The first except branch falling back to read_csv at once.
M_OnFailure_SkipsXlrd(engine) ==
    CASE engine = "openpyxl" -> "l_csv"
      [] engine = "xlrd" -> "l_csv"
      [] OTHER -> "crashed"

\* Where load_dataset goes when a strategy raised: the except branch that
\* tries the next strategy, or out of the function when read_csv raised.
OnFailure(engine) ==
    CASE engine = "openpyxl" -> "l_xlrd"
      [] engine = "xlrd" -> "l_csv"
      [] OTHER -> "crashed"

\* The place of a strategy in the order load_dataset is written in.
StrategyNo(engine) == CHOOSE k \in 1..Len(Engines) : Engines[k] = engine

\* The inner try without its except branch: the xlrd failure leaves the
\* function.
M_Propagates_Xlrd(engine) == engine \in {"xlrd", "csv"}

\* Whether a strategy's failure leaves load_dataset: it does when no except
\* branch catches it.
Propagates(engine) == OnFailure(engine) = "crashed"

\* The exception that leaves load_dataset when `engine` raised, if any.
Uncaught(engine) ==
    IF Propagates(engine) THEN Err("parse", StrategyNo(engine)) ELSE NoErr

\* One parse attempt of load_dataset with `engine`.
Attempt(p, engine) ==
    /\ tried' = [tried EXCEPT ![p] = Append(@, engine)]
    /\ \/ /\ file.accepts[engine]
          /\ df' = [df EXCEPT ![p] = ReadTable(file, engine)]
          /\ pc' = [pc EXCEPT ![p] = "l_clean"]
          /\ exc' = exc
       \/ /\ ~file.accepts[engine]
          /\ df' = df
          /\ pc' = [pc EXCEPT ![p] = IF Propagates(engine) THEN "crashed"
                                                             ELSE OnFailure(engine)]
          /\ exc' = [exc EXCEPT ![p] = Uncaught(engine)]
    /\ UNCHANGED <<file, collection, started, entry, run, max_retries, i,
                   probes, sleeps, e, ret, count, records, calls>>

\* Lines 33-38: df = pd.read_excel(file_path, engine='openpyxl')
ReadExcelOpenpyxl(p) ==
    /\ pc[p] = "l_openpyxl"
    /\ Attempt(p, "openpyxl")

\* Lines 40-44: df = pd.read_excel(file_path, engine='xlrd')
ReadExcelXlrd(p) ==
    /\ pc[p] = "l_xlrd"
    /\ Attempt(p, "xlrd")

\* Lines 45-47: df = pd.read_csv(file_path)
ReadCsv(p) ==
    /\ pc[p] = "l_csv"
    /\ Attempt(p, "csv")

\* Lines 49-53: clean up the dataframe and return it.
Clean(p) ==
    /\ pc[p] = "l_clean"
    /\ df' = [df EXCEPT ![p] = CleanUp(@)]
    /\ ret' = [ret EXCEPT ![p] = FrameValue(df'[p])]
    /\ pc' = [pc EXCEPT ![p] = "l_returned"]
    /\ UNCHANGED <<file, collection, started, entry, run, max_retries, i,
                   probes, sleeps, e, exc, tried, count, records, calls>>

Load(p) ==
    \/ ReadExcelOpenpyxl(p)
    \/ ReadExcelXlrd(p)
    \/ ReadCsv(p)
    \/ Clean(p)

\* -------------------------------------------------------------------- main
\* The conversion taking the first data row for a header and skipping it.
M_ToDictRecords_SkipsFirstRow(t) ==
    [r \in 1..(Len(t.data) - 1) |->
       [name \in Range(t.cols) |->
          t.data[r + 1][CHOOSE c \in 1..Len(t.cols) : t.cols[c] = name]]]

\* df.to_dict('records'): one mapping from column name to cell per row.
ToDictRecords(t) ==
    [r \in 1..Len(t.data) |->
       [name \in Range(t.cols) |->
          t.data[r][CHOOSE c \in 1..Len(t.cols) : t.cols[c] = name]]]

\* A document of the collection: the id the driver gave it (the run that
\* inserted it and its place in that run's batch) and its fields.
Doc(r, n, fields) == [id |-> <<r, n>>, fields |-> fields]

\* The documents the collection holds before the first run (run id 0).
PreExisting(n) ==
    [k \in 1..n |->
       Doc(0, k, [name \in {"Age"} |-> [engine |-> "earlier", row |-> k, col |-> name]])]

\* The documents of the collection that run r inserted, in order.
InsertedBy(r) == SelectSeq(collection, LAMBDA d : d.id[1] = r)
Written(p) == Len(InsertedBy(run[p]))

\* The guard off by one: count > 1.
M_SkipSeed_MoreThanOne(n) == n > 1

\* The guard inverted: count == 0.
M_SkipSeed_Inverted(n) == n = 0

\* The guard comparing with the wrong sign: count < 0, never true.
M_SkipSeed_Never(n) == n < 0

\* The guard that skips only a collection holding the whole dataset.
M_SkipSeed_WholeDataset(n) == n >= file.nrows /\ n > 0

\* if count > 0 (line 70)
SkipSeed(n) == n > 0

\* Lines 61-66: client = wait_for_mongodb(mongo_uri); db = client[db_name];
\* collection = db['reports'].  Subscripting None raises TypeError.  The
\* activation of wait_for_mongodb is gone.
MainAfterWait(p) ==
    /\ entry[p] = "main"
    /\ pc[p] = "w_returned"
    /\ IF ret[p].tag = "client"
         THEN /\ pc' = [pc EXCEPT ![p] = "count"]
              /\ exc' = exc
         ELSE /\ pc' = [pc EXCEPT ![p] = "crashed"]
              /\ exc' = [exc EXCEPT ![p] = Err("nonetype", 0)]
    /\ i' = [i EXCEPT ![p] = 0]
    /\ probes' = [probes EXCEPT ![p] = <<>>]
    /\ sleeps' = [sleeps EXCEPT ![p] = 0]
    /\ e' = [e EXCEPT ![p] = NoErr]
    /\ UNCHANGED <<file, collection, started, entry, run, max_retries, ret,
                   df, tried, count, records, calls>>

\* The count query wrapped in a handler that logs the error and returns.
M_CountFails_Swallowed(p) ==
    /\ pc[p] = "count"
    /\ calls' = [calls EXCEPT ![p].count = @ + 1]
    /\ pc' = [pc EXCEPT ![p] = "done"]
    /\ UNCHANGED <<file, collection, started, entry, run, max_retries, i,
                   probes, sleeps, e, ret, exc, df, tried, count, records>>

\* The count query retried after a driver error.
M_CountFails_Retries(p) ==
    /\ pc[p] = "count"
    /\ calls[p].count < 3
    /\ calls' = [calls EXCEPT ![p].count = @ + 1]
    /\ UNCHANGED <<file, collection, started, entry, run, pc, max_retries, i,
                   probes, sleeps, e, ret, exc, df, tried, count, records>>

\* Line 69: count_documents raises a driver error.
CountFails(p) ==
    /\ pc[p] = "count"
    /\ calls' = [calls EXCEPT ![p].count = @ + 1]
    /\ exc' = [exc EXCEPT ![p] = Err("count", 0)]
    /\ pc' = [pc EXCEPT ![p] = "crashed"]
    /\ UNCHANGED <<file, collection, started, entry, run, max_retries, i,
                   probes, sleeps, e, ret, df, tried, count, records>>

\* Lines 69-72: the collection already has data; skip the seed and return.
CountSkip(p) ==
    /\ pc[p] = "count"
    /\ SkipSeed(Len(collection))
    /\ count' = [count EXCEPT ![p] = Len(collection)]
    /\ calls' = [calls EXCEPT ![p].count = @ + 1]
    /\ pc' = [pc EXCEPT ![p] = "done"]
    /\ UNCHANGED <<file, collection, started, entry, run, max_retries, i,
                   probes, sleeps, e, ret, exc, df, tried, records>>

\* Lines 69-70, 75: the guard lets the run through; load_dataset is called.
CountLoad(p) ==
    /\ pc[p] = "count"
    /\ ~SkipSeed(Len(collection))
    /\ count' = [count EXCEPT ![p] = Len(collection)]
    /\ calls' = [calls EXCEPT ![p].count = @ + 1, ![p].load = @ + 1]
    /\ pc' = [pc EXCEPT ![p] = "l_openpyxl"]
    /\ UNCHANGED <<file, collection, started, entry, run, max_retries, i,
                   probes, sleeps, e, ret, exc, df, tried, records>>

\* Lines 75-81: df = load_dataset(...); records = df.to_dict('records');
\* insert_many(records) is issued.
MainAfterLoad(p) ==
    /\ entry[p] = "main"
    /\ pc[p] = "l_returned"
    /\ records' = [records EXCEPT ![p] = ToDictRecords(ret[p])]
    /\ calls' = [calls EXCEPT ![p].insert = @ + 1]
    /\ pc' = [pc EXCEPT ![p] = "insert"]
    /\ UNCHANGED <<file, collection, started, entry, run, max_retries, i,
                   probes, sleeps, e, ret, exc, df, tried, count>>

\* Line 81: insert_many refuses an empty list of documents (pymongo raises
\* "documents must be a non-empty list") before anything is sent.
InsertRejected(p) ==
    /\ pc[p] = "insert"
    /\ records[p] = <<>>
    /\ exc' = [exc EXCEPT ![p] = Err("insert", 0)]
    /\ pc' = [pc EXCEPT ![p] = "crashed"]
    /\ UNCHANGED <<file, collection, started, entry, run, max_retries, i,
                   probes, sleeps, e, ret, df, tried, count, records, calls>>

\* Line 81: the server writes the next document of the batch.
InsertDoc(p) ==
    /\ pc[p] = "insert"
    /\ Written(p) < Len(records[p])
    /\ collection' = Append(collection,
                            Doc(run[p], Written(p) + 1, records[p][Written(p) + 1]))
    /\ UNCHANGED <<file, started, entry, run, pc, max_retries, i, probes,
                   sleeps, e, ret, exc, df, tried, count, records, calls>>

\* The failure handled by a cleanup that deletes what the run had written.
M_InsertFails_RollsBack(p) ==
    /\ pc[p] = "insert"
    /\ records[p] # <<>>
    /\ exc' = [exc EXCEPT ![p] = Err("insert", Written(p))]
    /\ collection' = SelectSeq(collection, LAMBDA d : d.id[1] # run[p])
    /\ pc' = [pc EXCEPT ![p] = "crashed"]
    /\ UNCHANGED <<file, started, entry, run, max_retries, i,
                   probes, sleeps, e, ret, df, tried, count, records, calls>>

\* Line 81: insert_many raises a driver error; what was written stays.
InsertFails(p) ==
    /\ pc[p] = "insert"
    /\ records[p] # <<>>
    /\ exc' = [exc EXCEPT ![p] = Err("insert", Written(p))]
    /\ pc' = [pc EXCEPT ![p] = "crashed"]
    /\ UNCHANGED <<file, collection, started, entry, run, max_retries, i,
                   probes, sleeps, e, ret, df, tried, count, records, calls>>

\* Lines 81-82: insert_many returns; the run reports and ends.
InsertDone(p) ==
    /\ pc[p] = "insert"
    /\ records[p] # <<>>
    /\ Written(p) = Len(records[p])
    /\ pc' = [pc EXCEPT ![p] = "done"]
    /\ UNCHANGED <<file, collection, started, entry, run, max_retries, i,
                   probes, sleeps, e, ret, exc, df, tried, count, records, calls>>

\* The script is started again after a run has ended: a new process, a new
\* run id, nothing kept but the collection and the file.
NextRun(p) ==
    /\ pc[p] \in {"done", "crashed"}
    /\ started < MaxRuns
    /\ started' = started + 1
    /\ run' = [run EXCEPT ![p] = started + 1]
    /\ pc' = [pc EXCEPT ![p] = "w_call"]
    /\ i' = [i EXCEPT ![p] = 0]
    /\ probes' = [probes EXCEPT ![p] = <<>>]
    /\ sleeps' = [sleeps EXCEPT ![p] = 0]
    /\ e' = [e EXCEPT ![p] = NoErr]
    /\ ret' = [ret EXCEPT ![p] = NoValue]
    /\ exc' = [exc EXCEPT ![p] = NoErr]
    /\ df' = [df EXCEPT ![p] = EmptyFrame]
    /\ tried' = [tried EXCEPT ![p] = <<>>]
    /\ count' = [count EXCEPT ![p] = -1]
    /\ records' = [records EXCEPT ![p] = <<>>]
    /\ calls' = [calls EXCEPT ![p] = NoCalls]
    /\ UNCHANGED <<file, collection, entry, max_retries>>

\* A step of main() itself.
Main(p) ==
    \/ MainAfterWait(p)
    \/ CountFails(p)
    \/ CountSkip(p)
    \/ CountLoad(p)
    \/ MainAfterLoad(p)
    \/ InsertRejected(p)
    \/ InsertDoc(p)
    \/ InsertFails(p)
    \/ InsertDone(p)

\* wait_for_mongodb as main calls it: with the default max_retries the loop
\* never runs out without a return or a raise, so line 26 is not reached.
MainWait(p) ==
    \/ WaitCall(p)
    \/ ProbeOk(p)
    \/ ProbeFailSleep(p)
    \/ ProbeFailRaise(p)

\* ------------------------------------------------------------ init states
InitCommon ==
    /\ file \in Files
    /\ started = Cardinality(Procs)
    /\ run = [p \in Procs |-> p]
    /\ i = [p \in Procs |-> 0]
    /\ probes = [p \in Procs |-> <<>>]
    /\ sleeps = [p \in Procs |-> 0]
    /\ e = [p \in Procs |-> NoErr]
    /\ ret = [p \in Procs |-> NoValue]
    /\ exc = [p \in Procs |-> NoErr]
    /\ df = [p \in Procs |-> EmptyFrame]
    /\ tried = [p \in Procs |-> <<>>]
    /\ count = [p \in Procs |-> -1]
    /\ records = [p \in Procs |-> <<>>]
    /\ calls = [p \in Procs |-> NoCalls]

\* Two callers of wait_for_mongodb(uri, max_retries), each with its own
\* max_retries.
InitWait ==
    /\ InitCommon
    /\ file = [cols |-> <<"Age">>, nrows |-> 0, accepts |-> [g \in EngineSet |-> FALSE]]
    /\ collection = <<>>
    /\ entry = [p \in Procs |-> "wait_for_mongodb"]
    /\ pc = [p \in Procs |-> "w_call"]
    /\ max_retries \in [Procs -> 0..MaxRetriesArg]

NextWait == \E p \in Procs : Wait(p)

SpecWait == InitWait /\ [][NextWait]_vars

\* Two callers of load_dataset(file_path) on the same file.
InitLoad ==
    /\ InitCommon
    /\ collection = <<>>
    /\ entry = [p \in Procs |-> "load_dataset"]
    /\ pc = [p \in Procs |-> "l_openpyxl"]
    /\ max_retries = [p \in Procs |-> DefaultMaxRetries]

NextLoad == \E p \in Procs : Load(p)

SpecLoad == InitLoad /\ [][NextLoad]_vars

\* Two processes start the script against the same collection and file.
Init ==
    /\ InitCommon
    /\ collection \in {PreExisting(n) : n \in 0..MaxPreExisting}
    /\ entry = [p \in Procs |-> "main"]
    /\ pc = [p \in Procs |-> "w_call"]
    /\ max_retries = [p \in Procs |-> DefaultMaxRetries]

\* The runs overlap freely.
Next == \E p \in Procs : MainWait(p) \/ Load(p) \/ Main(p)

Spec == Init /\ [][Next]_vars

\* A step of process p's run.
Step(p) == MainWait(p) \/ Load(p) \/ Main(p)

\* The overlapping runs when every probe, sleep, parse and database call
\* returns or raises: while some process can take a step, a step is taken.
SpecFair == Init /\ [][Next]_vars /\ WF_vars(Next)

\* p's run has not begun or has ended.
Idle(p) == pc[p] \in {"w_call", "done", "crashed"}

\* No other process is in a run.
Alone(p) == \A q \in Procs \ {p} : Idle(q)

\* The runs do not overlap: a process steps only while no other is in a run.
NextSeq ==
    \E p \in Procs :
        \/ Alone(p) /\ WaitCall(p)
        \/ Alone(p) /\ ProbeOk(p)
        \/ Alone(p) /\ ProbeFailSleep(p)
        \/ Alone(p) /\ ProbeFailRaise(p)
        \/ Alone(p) /\ ReadExcelOpenpyxl(p)
        \/ Alone(p) /\ ReadExcelXlrd(p)
        \/ Alone(p) /\ ReadCsv(p)
        \/ Alone(p) /\ Clean(p)
        \/ Alone(p) /\ MainAfterWait(p)
        \/ Alone(p) /\ CountFails(p)
        \/ Alone(p) /\ CountSkip(p)
        \/ Alone(p) /\ CountLoad(p)
        \/ Alone(p) /\ MainAfterLoad(p)
        \/ Alone(p) /\ InsertRejected(p)
        \/ Alone(p) /\ InsertDoc(p)
        \/ Alone(p) /\ InsertFails(p)
        \/ Alone(p) /\ InsertDone(p)
        \/ Alone(p) /\ NextRun(p)

SpecSeq == Init /\ [][NextSeq]_vars

\* ================================================================ claims
\* The probe log of a service that becomes reachable on attempt k.
ReachableAt(k) == [n \in 1..k |-> IF n < k THEN "fail" ELSE "ok"]
\* The probe log of a service unreachable for m attempts.
Unreachable(m) == [n \in 1..m |-> "fail"]

\* C5: for every max_retries >= 1 and every k in 1..max_retries, when the
\* probe failed on attempts 1..k-1 and succeeded on attempt k,
\* wait_for_mongodb has slept exactly k-1 times, issued exactly k probes and
\* returned the client; a successful probe is always the last probe of the
\* call (no probe or sleep follows it).
C5_SleepsUntilReachable ==
    \A p \in Procs :
        /\ \A k \in 1..max_retries[p] :
              probes[p] = ReachableAt(k) =>
                  /\ sleeps[p] = k - 1
                  /\ pc[p] = "w_returned"
                  /\ ret[p] = ClientValue
        /\ \A n \in 1..Len(probes[p]) :
              probes[p][n] = "ok" => n = Len(probes[p])

\* C5 witness: a call with max_retries >= 3 returned on its third probe.
C5_Witness ==
    \E p \in Procs :
        /\ max_retries[p] >= 3
        /\ probes[p] = ReachableAt(3)
        /\ pc[p] = "w_returned"

\* C6: for max_retries >= 1, when the probe failed on all max_retries
\* attempts, wait_for_mongodb has raised its connection error after exactly
\* max_retries probes and max_retries - 1 sleeps (no sleep follows the last
\* failed probe), and it raises in no other case.
C6_RaisesAfterMaxProbes ==
    \A p \in Procs :
        /\ (max_retries[p] >= 1 /\ probes[p] = Unreachable(max_retries[p])) =>
              /\ pc[p] = "crashed"
              /\ exc[p].kind = "connect"
              /\ sleeps[p] = max_retries[p] - 1
        /\ exc[p].kind = "connect" =>
              /\ max_retries[p] >= 1
              /\ probes[p] = Unreachable(max_retries[p])
        /\ Len(probes[p]) <= max_retries[p]

\* C6 witness: a call with max_retries >= 2 raised.
C6_Witness ==
    \E p \in Procs :
        /\ max_retries[p] >= 2
        /\ pc[p] = "crashed"
        /\ exc[p].kind = "connect"

\* C7: the error wait_for_mongodb raises has as its cause the exception of
\* the last, max_retries-th, probe, and no other probe's.
C7_WrapsLastProbeError ==
    \A p \in Procs :
        exc[p].kind = "connect" =>
            /\ exc[p].ckind = "probe"
            /\ exc[p].cat = max_retries[p]
            /\ exc[p].cat = Len(probes[p])

\* C7 witness: a call raised after at least three failed probes.
C7_Witness ==
    \E p \in Procs :
        /\ exc[p].kind = "connect"
        /\ Len(probes[p]) >= 3

\* The last element of a non-empty sequence.
Last(s) == s[Len(s)]

\* C8: load_dataset tries the strategies in the order openpyxl, xlrd, csv,
\* each at most once and only after every earlier one rejected the file; it
\* tries none after one accepted the file, and the rows it returns are the
\* rows the first accepting strategy produced.
C8_FirstAcceptingStrategy ==
    \A p \in Procs :
        /\ \E n \in 0..Len(Engines) : tried[p] = SubSeq(Engines, 1, n)
        /\ \A n \in 1..(Len(tried[p]) - 1) : ~file.accepts[tried[p][n]]
        /\ pc[p] \in {"l_clean", "l_returned"} =>
              /\ tried[p] # <<>>
              /\ file.accepts[Last(tried[p])]
        /\ pc[p] = "l_returned" =>
              /\ ret[p].tag = "df"
              /\ Len(ret[p].data) = file.nrows
              /\ \A r \in 1..Len(ret[p].data) :
                    \A c \in 1..Len(ret[p].data[r]) :
                        /\ ret[p].data[r][c].engine = Last(tried[p])
                        /\ ret[p].data[r][c].row = r

\* C8 witness: openpyxl rejected the file, xlrd accepted it, and load_dataset
\* returned its rows.
C8_Witness ==
    \E p \in Procs :
        /\ pc[p] = "l_returned"
        /\ tried[p] = <<"openpyxl", "xlrd">>
        /\ file.accepts["csv"]
        /\ Len(ret[p].data) >= 2

\* C9: an exception leaves load_dataset only when all three strategies
\* failed, it does leave then, and it is the exception read_csv raised; the
\* failures of openpyxl and xlrd are caught.
C9_OnlyCsvFailurePropagates ==
    \A p \in Procs :
        /\ (exc[p] # NoErr \/ pc[p] = "crashed") =>
              /\ exc[p] = Err("parse", StrategyNo("csv"))
              /\ pc[p] = "crashed"
              /\ tried[p] = Engines
              /\ \A g \in EngineSet : ~file.accepts[g]
        /\ (tried[p] = Engines /\ \A g \in EngineSet : ~file.accepts[g]) =>
              pc[p] = "crashed"
        /\ (tried[p] # <<>> /\ ~file.accepts[Last(tried[p])]) =>
              /\ Last(tried[p]) = "openpyxl" => pc[p] = "l_xlrd"
              /\ Last(tried[p]) = "xlrd" => pc[p] = "l_csv"

\* C9 witness: all three strategies failed and the call ended with read_csv's
\* exception.
C9_Witness ==
    \E p \in Procs :
        /\ pc[p] = "crashed"
        /\ tried[p] = Engines
        /\ exc[p].kind = "parse"

\* C10: the table load_dataset returns has no column named 'Unnamed: 0'; its
\* columns are the file's other columns in the file's order, it has the
\* file's rows in the file's order, and the cell at row r under a column is
\* the cell the accepting strategy decoded at row r of that column; a table
\* parsed without such a column is returned as parsed.
C10_OnlyPlaceholderDropped ==
    \A p \in Procs :
        pc[p] = "l_returned" =>
            LET parsed == ReadTable(file, Last(tried[p]))
                out == ret[p]
            IN  /\ Unnamed \notin Range(out.cols)
                /\ out.cols = SelectSeq(parsed.cols, LAMBDA x : x # Unnamed)
                /\ Len(out.data) = Len(parsed.data)
                /\ \A r \in 1..Len(out.data) :
                      /\ Len(out.data[r]) = Len(out.cols)
                      /\ \A q \in 1..Len(out.cols) :
                            \E c \in 1..Len(parsed.cols) :
                                /\ parsed.cols[c] = out.cols[q]
                                /\ out.data[r][q] = parsed.data[r][c]
                /\ Unnamed \notin Range(parsed.cols) =>
                      (out.cols = parsed.cols /\ out.data = parsed.data)

\* C10 witness: a two-row table whose last column is the placeholder column
\* was returned.
C10_Witness ==
    \E p \in Procs :
        /\ pc[p] = "l_returned"
        /\ file.cols = <<"Age", Unnamed>>
        /\ file.nrows >= 2

\* The document that holds row n of the file as `engine` decoded it, with
\* the fields named in `names`, inserted by run r.
RowDoc(r, n, engine, names) ==
    Doc(r, n, [name \in names |-> [engine |-> engine, row |-> n, col |-> name]])

\* C1: a run whose count query found at least one document has not called
\* load_dataset, has issued no insert and has written no document, and it
\* ends there, whatever the dataset file holds.
C1_NonEmptySkips ==
    \A p \in Procs :
        count[p] > 0 =>
            /\ calls[p].load = 0
            /\ calls[p].insert = 0
            /\ tried[p] = <<>>
            /\ Written(p) = 0
            /\ pc[p] = "done"

\* C1 witness: a run found one document and ended, with a file that a
\* strategy accepts and that has rows.
C1_Witness ==
    \E p \in Procs :
        /\ count[p] = 1
        /\ pc[p] = "done"
        /\ file.nrows >= 1
        /\ file.accepts["openpyxl"]

\* C2 as stated: a run that found the collection empty and whose file was
\* parsed ends having inserted one document per row of the file, each with
\* all the fields of its row.
C2_AsStated ==
    \A p \in Procs :
        (count[p] = 0 /\ pc[p] \in {"done", "crashed"} /\ ret[p].tag = "df") =>
            InsertedBy(run[p]) =
                [n \in 1..file.nrows |->
                    RowDoc(run[p], n, Last(tried[p]), Range(file.cols))]

\* C2 amended: the documents a run has written are always the first rows of
\* the file in order, each with the fields of its row other than the
\* placeholder column; a run that found the collection empty and ended with
\* exit zero has written all the rows, and there is at least one.
C2_SeedsEveryRowOnSuccess ==
    \A p \in Procs :
        /\ Written(p) <= file.nrows
        /\ Written(p) > 0 =>
              InsertedBy(run[p]) =
                  [n \in 1..Written(p) |->
                      RowDoc(run[p], n, Last(tried[p]), Range(file.cols) \ {Unnamed})]
        /\ (count[p] = 0 /\ pc[p] = "done") =>
              /\ Written(p) = file.nrows
              /\ file.nrows >= 1

\* C2 witness: a run found the collection empty and ended with exit zero on
\* a two-row file that has the placeholder column.
C2_Witness ==
    \E p \in Procs :
        /\ count[p] = 0
        /\ pc[p] = "done"
        /\ file.nrows = 2
        /\ Unnamed \in Range(file.cols)

\* C3: documents of two runs are in the collection only when both runs read
\* a count of zero, and when two runs that both read zero have both ended
\* with exit zero the collection holds every row of the file twice: 2N
\* documents for an N-row file.
C3_BothPassGuardBothInsert ==
    \A p \in Procs : \A q \in Procs \ {p} :
        /\ (Written(p) > 0 /\ Written(q) > 0) => (count[p] = 0 /\ count[q] = 0)
        /\ (count[p] = 0 /\ count[q] = 0 /\ pc[p] = "done" /\ pc[q] = "done") =>
              /\ Len(collection) = 2 * file.nrows
              /\ \A n \in 1..file.nrows :
                    Cardinality({k \in 1..Len(collection) :
                                    collection[k].id[2] = n}) = 2

\* C3 witness: both runs read zero, both inserted, and the collection holds
\* two copies of a two-row file.
C3_Witness ==
    \E p \in Procs : \E q \in Procs \ {p} :
        /\ count[p] = 0 /\ count[q] = 0
        /\ pc[p] = "done" /\ pc[q] = "done"
        /\ file.nrows = 2
        /\ Len(collection) = 4

\* C4: when the runs do not overlap, all the documents of the collection
\* come from one source (what was there before, or one single run), that run
\* wrote each row at most once, and a collection that was seeded or held
\* documents before is never written to again.
C4_SequentialRunsSeedOnce ==
    /\ \A k \in 1..Len(collection) : \A n \in 1..Len(collection) :
          collection[k].id[1] = collection[n].id[1]
    /\ \A k \in 1..Len(collection) : collection[k].id[2] = k
    /\ Len(collection) <= IF file.nrows > MaxPreExisting THEN file.nrows
                                                          ELSE MaxPreExisting
    /\ \A p \in Procs :
          (Written(p) > 0 /\ pc[p] \in {"done", "crashed"}) =>
              collection = InsertedBy(run[p])

\* C4 witness: the third run of a sequence has ended and the collection
\* holds exactly the two rows the first seeding run wrote.
C4_Witness ==
    \E p \in Procs :
        /\ run[p] = 3
        /\ pc[p] = "done"
        /\ count[p] = 2
        /\ file.nrows = 2
        /\ Len(collection) = 2

\* C11: a run whose insert_many raised has ended with that error uncaught,
\* and the documents it had written when the error was raised are still in
\* the collection, as written: the first rows of the file, none deleted.
C11_PartialInsertStays ==
    \A p \in Procs :
        exc[p].kind = "insert" =>
            /\ pc[p] = "crashed"
            /\ calls[p].insert = 1
            /\ Written(p) = exc[p].at
            /\ InsertedBy(run[p]) =
                  [n \in 1..exc[p].at |->
                      RowDoc(run[p], n, Last(tried[p]), Range(file.cols) \ {Unnamed})]

\* C11 witness: insert_many raised after one of two documents was written.
C11_Witness ==
    \E p \in Procs :
        /\ pc[p] = "crashed"
        /\ exc[p].kind = "insert"
        /\ exc[p].at = 1
        /\ file.nrows = 2
        /\ Written(p) = 1

C13_OnlyProbeRetried ==
    \A p \in Procs :
        /\ calls[p].count <= 1
        /\ calls[p].load <= 1
        /\ calls[p].insert <= 1
        /\ \A m \in 1..Len(tried[p]) : \A n \in 1..Len(tried[p]) :
              tried[p][m] = tried[p][n] => m = n
        /\ exc[p].kind = "count" =>
              (calls[p].count = 1 /\ pc[p] = "crashed")
        /\ exc[p].kind = "parse" =>
              (calls[p].load = 1 /\ Len(tried[p]) = Len(Engines) /\ pc[p] = "crashed")
        /\ exc[p].kind = "insert" =>
              (calls[p].insert = 1 /\ pc[p] = "crashed")

\* C13 witness: while one run is on its third probe, the other has ended
\* with insert_many's error after one count, one load and one insert.
C13_Witness ==
    \E p \in Procs : \E q \in Procs \ {p} :
        /\ Len(probes[p]) = 3
        /\ pc[q] = "crashed"
        /\ exc[q].kind = "insert"
        /\ calls[q] = [count |-> 1, load |-> 1, insert |-> 1]

\* The stages of a run in the order main() goes through them, last first.
StageOrder ==
    <<"insert", "l_returned", "l_clean", "l_csv", "l_xlrd", "l_openpyxl",
      "count", "w_returned", "w_return_none", "w_probe", "w_call">>

\* An upper bound on the steps p's run can still take: the stages ahead of
\* it, each counted for more than any stage can take, plus the probes or
\* the documents left in the stage it is in.
StepsLeft(p) ==
    IF pc[p] \in {"done", "crashed"} THEN 0
    ELSE LET stage == CHOOSE k \in 1..Len(StageOrder) : StageOrder[k] = pc[p]
             within == CASE pc[p] = "w_probe" -> max_retries[p] - i[p]
                         [] pc[p] = "insert" -> Len(records[p]) - Written(p)
                         [] OTHER -> 0
         IN  stage * (max_retries[p] + file.nrows + 1) + within

\* Every run of main() ends, completed or crashed, and stays ended.
EveryRunEnds == <>[](\A p \in Procs : pc[p] \in {"done", "crashed"})

\* C14: a run that has not ended can always take a step, every step takes
\* at least one run strictly closer to its end and none further from it (so
\* when every call returns or raises, every run of main() ends, completed
\* or crashed, after a bounded number of steps), and on the way
\* wait_for_mongodb never issues more than max_retries probes nor more than
\* max_retries - 1 sleeps.
C14_TerminatesWithinBounds ==
    /\ [](\A p \in Procs :
            /\ Len(probes[p]) <= max_retries[p]
            /\ sleeps[p] <= max_retries[p] - 1
            /\ StepsLeft(p) >= 0
            /\ pc[p] \notin {"done", "crashed"} => ENABLED Step(p))
    /\ [][/\ \A p \in Procs : StepsLeft(p)' <= StepsLeft(p)
          /\ \E p \in Procs : StepsLeft(p)' < StepsLeft(p)]_vars

\* C14 witness: both runs have ended, one of them after all max_retries
\* probes failed.
C14_Witness ==
    \E p \in Procs : \E q \in Procs \ {p} :
        /\ pc[p] = "crashed"
        /\ Len(probes[p]) = max_retries[p]
        /\ sleeps[p] = max_retries[p] - 1
        /\ pc[q] = "done"

\* The stages of a run before wait_for_mongodb has returned to main().
Waiting == {"w_call", "w_probe", "w_return_none", "w_returned"}

\* C15: the steps of a run of main() come in one order.  Until
\* wait_for_mongodb has returned no count query, load or insert was issued,
\* and it returns the client only after a probe that succeeded; load_dataset
\* was invoked only if the one count query returned zero; the insert was
\* issued only if load_dataset returned a frame; only a run that issued the
\* insert has documents in the collection.  So a run that crashed because
\* connectivity was exhausted or because every parse strategy failed issued
\* no insert and wrote nothing.
C15_FixedOrder ==
    \A p \in Procs :
        /\ pc[p] \in Waiting => calls[p] = NoCalls
        /\ (pc[p] = "w_returned" /\ ret[p] = ClientValue)
              => (probes[p] # <<>> /\ Last(probes[p]) = "ok")
        /\ calls[p].count >= 1
              => (calls[p].count = 1 /\ ret[p].tag \in {"client", "df"})
        /\ calls[p].load >= 1
              => (calls[p].load = 1 /\ calls[p].count = 1 /\ count[p] = 0)
        /\ calls[p].insert >= 1
              => (/\ calls[p].insert = 1
                  /\ calls[p].load = 1
                  /\ count[p] = 0
                  /\ ret[p].tag = "df"
                  /\ exc[p].kind \notin {"connect", "parse"})
        /\ Written(p) >= 1 => calls[p].insert = 1
        /\ exc[p].kind = "connect" => (calls[p] = NoCalls /\ Written(p) = 0)
        /\ exc[p].kind = "parse" => (calls[p].insert = 0 /\ Written(p) = 0)

\* C15 witness: one run crashed on exhausted connectivity having issued
\* nothing, while the other went through count, load and insert and ended
\* with its documents written.
C15_Witness ==
    \E p \in Procs : \E q \in Procs \ {p} :
        /\ pc[p] = "crashed"
        /\ exc[p].kind = "connect"
        /\ calls[p] = NoCalls
        /\ pc[q] = "done"
        /\ calls[q] = [count |-> 1, load |-> 1, insert |-> 1]
        /\ Written(q) >= 1

\* C16: a call of wait_for_mongodb with max_retries >= 1 never gets to the
\* return None after the loop: when it has returned, it returned the client
\* and its last probe succeeded, and otherwise it is probing or has raised.
\* A call with max_retries = 0 issues no probe and no sleep, raises nothing,
\* and when it has returned it returned None.  So None is returned only with
\* max_retries = 0.
C16_ReturnNoneOnlyWithoutRetries ==
    \A p \in Procs :
        /\ max_retries[p] >= 1 =>
              /\ pc[p] \in {"w_call", "w_probe", "w_returned", "crashed"}
              /\ ret[p] # NoneValue
              /\ pc[p] = "w_returned" =>
                    (ret[p] = ClientValue /\ Last(probes[p]) = "ok")
              /\ pc[p] = "crashed" => exc[p].kind = "connect"
        /\ max_retries[p] = 0 =>
              /\ pc[p] \in {"w_call", "w_return_none", "w_returned"}
              /\ probes[p] = <<>>
              /\ sleeps[p] = 0
              /\ exc[p] = NoErr
              /\ pc[p] = "w_returned" => ret[p] = NoneValue
        /\ (pc[p] = "w_return_none" \/ ret[p] = NoneValue) => max_retries[p] = 0

\* C16 witness: a call with max_retries = 0 has returned None without a
\* probe, and a call with max_retries = 1 has returned the client.
C16_Witness ==
    \E p \in Procs : \E q \in Procs \ {p} :
        /\ max_retries[p] = 0
        /\ pc[p] = "w_returned"
        /\ ret[p] = NoneValue
        /\ probes[p] = <<>>
        /\ max_retries[q] = 1
        /\ pc[q] = "w_returned"
        /\ ret[q] = ClientValue

\* The run that wrote the documents of a collection seeded by this script.
Seeder == collection[1].id[1]

\* A bulk insert failed partway: the collection holds at least one but fewer
\* than all the documents of the dataset, written by a run of this script
\* that has ended.
PartiallySeeded ==
    /\ collection # <<>>
    /\ Seeder >= 1
    /\ Len(collection) < file.nrows
    /\ \A p \in Procs : run[p] = Seeder => pc[p] = "crashed"

\* C17: once a run's bulk insert has failed partway, no step of a later run
\* of a sequence changes the collection, which so stays partially seeded:
\* no step calls load_dataset or insert_many, and the step that answers a
\* run's count query answers with the non-zero size of the collection and
\* ends the run there.
C17_PartialSeedIsNeverCompleted ==
    [][PartiallySeeded =>
          /\ collection' = collection
          /\ PartiallySeeded'
          /\ \A q \in Procs :
                /\ calls'[q].load <= calls[q].load
                /\ calls'[q].insert <= calls[q].insert
                /\ (count'[q] # count[q] /\ count'[q] # -1) =>
                      /\ count'[q] = Len(collection)
                      /\ count'[q] > 0
                      /\ pc'[q] = "done"]_vars

\* C17 witness: the first run left one of the two documents behind, and the
\* second and the third run have both counted it and ended without seeding.
C17_Witness ==
    \E q \in Procs : \E r \in Procs \ {q} :
        /\ PartiallySeeded
        /\ Seeder = 1
        /\ Len(collection) = 1
        /\ run[q] = 2 /\ pc[q] = "done" /\ count[q] = 1
        /\ run[r] = 3 /\ pc[r] = "done" /\ count[r] = 1

====
